---- MODULE Spec2Model ----
(***************************************************************************)
(* Model of src/framework/processing/py/port/script.py: the TikTok export  *)
(* reader, the table extractors, the extraction orchestrator and the       *)
(* generator-based data donation flow (DataDonationProcessor.process).     *)
(*                                                                         *)
(* Representation                                                          *)
(*  - An instant (datetime) is an integer: seconds since                   *)
(*    2021-01-01 00:00:00.  A timedelta is an integer number of seconds.   *)
(*  - A "Date" string of the export is a record [fmt, day, sec]: fmt says  *)
(*    whether the text matches "%Y-%m-%d %H:%M:%S"; day is the calendar    *)
(*    day it names (days since 2021-01-01) and sec the second of that day. *)
(*  - A parsed JSON value is a record: isdict says whether it is a JSON    *)
(*    object; the other fields are the sections the extractors read.       *)
(*    A list that get_list reads is a sequence (absent = empty); a list    *)
(*    that get_in reads is [present, items], absent being distinguishable. *)
(*  - A Python call that may raise returns a record whose status field is  *)
(*    "ok" or the name of the exception class raised.                      *)
(***************************************************************************)
EXTENDS Integers, Sequences, FiniteSets, TLC

VARIABLES
    pc,                \* where the generator of process(session_id) is suspended
    meta_data,         \* DataDonationProcessor.meta_data: the session log
    cmds,              \* every command yielded so far, in order
    last_response,     \* the payload the host sent at the last resume
    file_result,       \* process()'s local file_result: the last file payload
    extraction_result, \* outcome of the last self.extract_data(file) call
    retry_from,        \* which branch of process() yielded the pending retry prompt
    prompts,           \* number of file prompts rendered so far
    rfile,             \* reader study: the file handed to get_json_data_from_file
    rresult,           \* reader study: what the call returned or raised
    xdata,             \* extractor study: the loaded document
    xresult,           \* extractor study: outcome of the extractor loop
    call_arg,          \* function study: the argument of the function called
    call_ret           \* function study: what the call returned

vars == <<pc, meta_data, cmds, last_response, file_result, extraction_result,
          retry_from, prompts, rfile, rresult, xdata, xresult, call_arg, call_ret>>

flowVars == <<pc, meta_data, cmds, last_response, file_result, extraction_result,
              retry_from, prompts>>
readerVars == <<rfile, rresult>>
extractVars == <<xdata, xresult>>
callVars == <<call_arg, call_ret>>

-----------------------------------------------------------------------------
(* Bounds of the model *)

\* file prompts rendered in one run of the flow
MaxPrompts == 3
\* entries of a zip archive in the reader study
MaxEntries == 3
\* items of the Video Browsing History list in the extractor study
MaxItems == 2
\* timestamps handed to get_sessions in the session study
MaxTimestamps == 4
\* messages of the chat history in the direct-message study
MaxMessages == 3
\* videos of the VideoList in the video-post study
MaxVideos == 2

-----------------------------------------------------------------------------
(* Time *)

SecondsPerHour == 60 * 60
SecondsPerDay == 24 * SecondsPerHour

\* datetime.datetime(2021, 1, 1): the origin of the model's instants
filter_start == 0
\* datetime.datetime(2025, 1, 1): 1461 days after 2021-01-01
filter_end == 126230400

DateStr(d, s) == [fmt |-> TRUE, day |-> d, sec |-> s]
MalformedDate == [fmt |-> FALSE, day |-> 0, sec |-> 0]

\* strptime(value, datetime_format); raises ValueError when the text does not match
parse_datetime_raises(value) == ~value.fmt
parse_datetime(value) == value.day * SecondsPerDay + value.sec

\* datetime.hour of an instant
HourOf(t) == (t % SecondsPerDay) \div SecondsPerHour

hourly_key(date) == date - (date % SecondsPerHour)

\* f"{hour}-{hour+1}"
map_to_timeslot(hour) == <<hour, hour + 1>>

-----------------------------------------------------------------------------
(* Sequence helpers *)

Range(s) == {s[i] : i \in DOMAIN s}

SetMin(S) == CHOOSE x \in S : \A y \in S : x <= y

\* sorted(...) of a set of integers
RECURSIVE SortSet(_)
SortSet(S) == IF S = {} THEN <<>> ELSE <<SetMin(S)>> \o SortSet(S \ {SetMin(S)})

\* sorted(...) of a sequence of integers (duplicates kept)
RECURSIVE InsertSorted(_, _)
InsertSorted(x, s) ==
    IF s = <<>> THEN <<x>>
    ELSE IF x <= Head(s) THEN <<x>> \o s
    ELSE <<Head(s)>> \o InsertSorted(x, Tail(s))

\* faulty variant: the timestamps are taken in the order given
sorted_Unsorted(s) == s

RECURSIVE sorted(_)
sorted(s) == IF s = <<>> THEN <<>> ELSE InsertSorted(Head(s), sorted(Tail(s)))

-----------------------------------------------------------------------------
(* Dictionary access and date filtering *)

Ok(v) == [status |-> "ok", val |-> v]
Raise(e) == [status |-> e, val |-> <<>>]

\* get_in(data, "Profile", "Profile Information", "ProfileMap", "userName").
\* data_dict.get raises AttributeError when the JSON value is not an object;
\* a missing key gives None, modelled as the empty string (both are falsy).
get_user_name(data) == IF data.isdict THEN Ok(data.userName) ELSE Raise("AttributeError")

\* A number-like field is [kind, n]: kind "absent" (no key), "None" (the
\* string "None") or "num" (a number or digit string of value n).
\* cast_number(data, *key_path): 0 for None and "None", else the value itself
cast_number(value) == IF value.kind = "absent" \/ value.kind = "None" THEN 0 ELSE value.n

\* the test of get_date_filtered_items: an item is skipped iff
\* timestamp < filter_start or timestamp > filter_end
InWindow(timestamp) == ~(timestamp < filter_start \/ timestamp > filter_end)

\* get_date_filtered_items(items): the (timestamp, item) pairs that pass the test
RECURSIVE get_date_filtered_items(_)
get_date_filtered_items(items) ==
    IF items = <<>> THEN <<>>
    ELSE LET item == Head(items)
             timestamp == parse_datetime(item.Date)
         IN  (IF InWindow(timestamp) THEN << <<timestamp, item>> >> ELSE <<>>)
             \o get_date_filtered_items(Tail(items))

\* parse_datetime raises ValueError on some item of the list
AnyMalformed(items) == \E i \in DOMAIN items : parse_datetime_raises(items[i].Date)

First(pair) == pair[1]
\* get_all_first(items)
get_all_first(items) == [i \in DOMAIN items |-> First(items[i])]

\* get_count_by_date_key(timestamps, key_func) with key_func = hourly_key:
\* the sorted list of (key, count)
get_count_by_date_key(timestamps) ==
    LET keys == {hourly_key(timestamps[i]) : i \in DOMAIN timestamps}
        CountOf(k) == Cardinality({i \in DOMAIN timestamps : hourly_key(timestamps[i]) = k})
        sorted_keys == SortSet(keys)
    IN  [i \in DOMAIN sorted_keys |-> <<sorted_keys[i], CountOf(sorted_keys[i])>>]

\* filtered_count(data, *key_path)
filtered_count(items) == Len(get_date_filtered_items(items))

\* get_sessions(timestamps): (start, end, duration) triples
RECURSIVE SessionScan(_, _, _, _)
SessionScan(ts, i, start, end) ==
    IF i > Len(ts) THEN << <<start, end, end - start>> >>
    ELSE IF ts[i] - ts[i - 1] > 5 * 60
         THEN << <<start, end, end - start>> >> \o SessionScan(ts, i + 1, ts[i], ts[i])
         ELSE SessionScan(ts, i + 1, start, ts[i])

get_sessions(timestamps) ==
    LET ts == sorted(timestamps)
    IN  IF Len(ts) = 0 THEN <<>>
        ELSE IF Len(ts) = 1 THEN << <<ts[1], ts[1], 0>> >>
        ELSE SessionScan(ts, 2, ts[1], ts[1])

-----------------------------------------------------------------------------
(* Export Reader *)

\* load_tiktok_data(json_file): content is what json.load meets in the stream
\*   "json"        a JSON text, whose value is `value`
\*   "badjson"     text that is not JSON: json.JSONDecodeError
\*   "undecodable" bytes that are not text in the detected encoding: UnicodeDecodeError
load_tiktok_data(content, value) ==
    IF content = "badjson" THEN Raise("JSONDecodeError")
    ELSE IF content = "undecodable" THEN Raise("UnicodeDecodeError")
    ELSE LET name == get_user_name(value)
         IN  IF name.status # "ok" THEN Raise(name.status)
             ELSE IF name.val = "" THEN Raise("IOError")
             ELSE Ok(value)

\* with suppress(IOError, json.JSONDecodeError)
SuppressedInZip(status) == status \in {"IOError", "JSONDecodeError"}

\* get_json_data_from_zip(zip_file): the loop over zip.namelist(), from entry i on
RECURSIVE ZipScan(_, _)
ZipScan(entries, i) ==
    IF i > Len(entries) THEN Ok(<<>>)
    ELSE IF ~entries[i].json_suffix THEN ZipScan(entries, i + 1)
    ELSE LET r == load_tiktok_data(entries[i].content, entries[i].value)
         IN  IF r.status = "ok" THEN Ok(<<r.val>>)
             ELSE IF SuppressedInZip(r.status) THEN ZipScan(entries, i + 1)
             ELSE Raise(r.status)

\* zipfile.ZipFile(zip_file, "r") raises BadZipFile when the file is no archive
get_json_data_from_zip(file) ==
    IF file.kind # "zip" THEN Raise("BadZipFile") ELSE ZipScan(file.entries, 1)

\* get_json_data_from_file(file_).  file.kind says what open/json.load meet:
\*   "unreadable" open raises OSError (IOError)
\*   "json"       the text is JSON with value file.value
\*   "zip"        not JSON text (a decode error), a zip archive with file.entries
\*   "other"      not JSON text (a decode error), not a zip archive either
get_json_data_from_file(file) ==
    IF file.kind = "unreadable" THEN Raise("IOError")
    ELSE IF file.kind = "json"
         THEN LET r == load_tiktok_data("json", file.value)
              IN  IF r.status = "ok" THEN Ok(<<r.val>>) ELSE Raise(r.status)
         ELSE get_json_data_from_zip(file)

-----------------------------------------------------------------------------
(* Table Extractors.  An extractor returns a table (ExtractionResult), None, *)
(* or raises.                                                                *)

ExtractionResult(id, rows) == [status |-> "ok", isnone |-> FALSE, id |-> id, rows |-> rows]
ReturnNone == [status |-> "ok", isnone |-> TRUE, id |-> "", rows |-> <<>>]
ExtractorRaises(e) == [status |-> e, isnone |-> FALSE, id |-> "", rows |-> <<>>]

\* get_list(data, "Video", "Videos", "VideoList"): [] when the path is absent
VideoListOrEmpty(data) == IF data.videoList.present THEN data.videoList.items ELSE <<>>
\* get_dict(data, "Direct Messages", "Chat History", "ChatHistory") flattened
ChatOrEmpty(data) == IF data.chat.present THEN data.chat.msgs ELSE <<>>

extract_summary_data(data) ==
    LET user_name == data.userName
        direct_messages_in_period == get_date_filtered_items(ChatOrEmpty(data))
        FromUser(p) == p[2].From = user_name
        FromOther(p) == p[2].From # user_name
        sent_count == Len(SelectSeq(direct_messages_in_period, FromUser))
        received_count == Len(SelectSeq(direct_messages_in_period, FromOther))
    IN  IF \/ AnyMalformed(ChatOrEmpty(data))
           \/ AnyMalformed(data.followers) \/ AnyMalformed(data.following)
           \/ AnyMalformed(VideoListOrEmpty(data)) \/ AnyMalformed(data.likeList)
           \/ AnyMalformed(data.comments) \/ AnyMalformed(data.browsing)
        THEN ExtractorRaises("ValueError")
        ELSE ExtractionResult("tiktok_summary",
               << filtered_count(data.followers),
                  filtered_count(data.following),
                  cast_number(data.likesReceived),
                  filtered_count(VideoListOrEmpty(data)),
                  filtered_count(data.likeList),
                  filtered_count(data.comments),
                  sent_count,
                  received_count,
                  filtered_count(data.browsing) >>)

\* One row per item of the browsing list; the list is not date-filtered here.
\* On an empty list df["Date"] has dtype object and date.dt raises AttributeError.
extract_videos_viewed(data) ==
    LET videos == data.browsing
        Row(item) == [Date |-> item.Date,
                      Timeslot |-> map_to_timeslot(HourOf(parse_datetime(item.Date)))]
    IN  IF AnyMalformed(videos) THEN ExtractorRaises("ValueError")
        ELSE IF videos = <<>> THEN ExtractorRaises("AttributeError")
        ELSE ExtractionResult("tiktok_videos_viewed", [i \in DOMAIN videos |-> Row(videos[i])])

\* int(video["Likes"]): KeyError without the key, ValueError on "None"
IntOfLikes(likes) ==
    IF likes.kind = "absent" THEN Raise("KeyError")
    ELSE IF likes.kind = "None" THEN Raise("ValueError")
    ELSE Ok(likes.n)

\* the loop of extract_video_posts over the filtered videos, in list order:
\* the first exception met, else "ok"
RECURSIVE PostsLoopStatus(_)
PostsLoopStatus(video_list) ==
    IF video_list = <<>> THEN "ok"
    ELSE LET video == Head(video_list)
         IN  IF parse_datetime_raises(video.Date) THEN "ValueError"
             ELSE IF InWindow(parse_datetime(video.Date)) /\ IntOfLikes(video.Likes).status # "ok"
                  THEN IntOfLikes(video.Likes).status
             ELSE PostsLoopStatus(Tail(video_list))

\* keys of post_stats in insertion order
RECURSIVE FirstSeenKeys(_, _)
FirstSeenKeys(videos, seen) ==
    IF videos = <<>> THEN <<>>
    ELSE LET k == hourly_key(Head(videos)[1])
         IN  IF k \in seen THEN FirstSeenKeys(Tail(videos), seen)
             ELSE <<k>> \o FirstSeenKeys(Tail(videos), seen \cup {k})

RECURSIVE SumLikes(_, _)
SumLikes(videos, k) ==
    IF videos = <<>> THEN 0
    ELSE (IF hourly_key(Head(videos)[1]) = k THEN IntOfLikes(Head(videos)[2].Likes).val ELSE 0)
         + SumLikes(Tail(videos), k)

\* With no video in the window post_stats is empty, the transposed frame has
\* no DatetimeIndex and df.index.strftime raises AttributeError.
extract_video_posts(data) ==
    IF ~data.videoList.present THEN ReturnNone
    ELSE LET video_list == data.videoList.items
             videos == get_date_filtered_items(video_list)
             InHour(k) == Cardinality({i \in DOMAIN videos : hourly_key(videos[i][1]) = k})
             Row(k) == [Date |-> k \div SecondsPerDay,
                        Timeslot |-> map_to_timeslot(HourOf(k)),
                        Videos |-> InHour(k),
                        LikesReceived |-> SumLikes(videos, k)]
         IN  IF PostsLoopStatus(video_list) # "ok"
                 THEN ExtractorRaises(PostsLoopStatus(video_list))
             ELSE IF videos = <<>> THEN ExtractorRaises("AttributeError")
             ELSE LET keys == FirstSeenKeys(videos, {})
                  IN  ExtractionResult("tiktok_posts", [i \in DOMAIN keys |-> Row(keys[i])])

CountAt(counts, k) ==
    IF \E i \in DOMAIN counts : counts[i][1] = k
    THEN counts[CHOOSE i \in DOMAIN counts : counts[i][1] = k][2]
    ELSE 0

extract_comments_and_likes(data) ==
    LET comments == get_all_first(get_date_filtered_items(data.comments))
        comment_counts == get_count_by_date_key(comments)
        likes_given == get_all_first(get_date_filtered_items(data.likeList))
        likes_given_counts == get_count_by_date_key(likes_given)
        keys == {comment_counts[i][1] : i \in DOMAIN comment_counts}
                \cup {likes_given_counts[i][1] : i \in DOMAIN likes_given_counts}
        Row(k) == [Date |-> k,
                   Timeslot |-> map_to_timeslot(HourOf(k)),
                   CommentPosts |-> CountAt(comment_counts, k),
                   LikesGiven |-> CountAt(likes_given_counts, k)]
    IN  IF AnyMalformed(data.comments) \/ AnyMalformed(data.likeList)
            THEN ExtractorRaises("ValueError")
        ELSE IF likes_given_counts = <<>> THEN ReturnNone
        ELSE LET sorted_keys == SortSet(keys)
             IN  ExtractionResult("tiktok_comments_and_likes",
                                  [i \in DOMAIN sorted_keys |-> Row(sorted_keys[i])])

\* With no session the frame is empty, df["Start"] has dtype object and
\* df["Start"].dt raises AttributeError.
extract_session_info(data) ==
    LET items == VideoListOrEmpty(data) \o data.browsing \o data.comments
        dates == get_all_first(get_date_filtered_items(items))
        sessions == get_sessions(dates)
        Row(s) == [Start |-> s[1] - (s[1] % 60), Duration |-> s[3]]
    IN  IF AnyMalformed(items) THEN ExtractorRaises("ValueError")
        ELSE IF sessions = <<>> THEN ExtractorRaises("AttributeError")
        ELSE ExtractionResult("tiktok_session_info", [i \in DOMAIN sessions |-> Row(sessions[i])])

\* anon_ids = defaultdict(lambda: next(counter)): an identifier's id is its
\* position in the sequence of identifiers in first-access order
IdOf(known, name) == CHOOSE i \in DOMAIN known : known[i] = name

RECURSIVE AnonRows(_, _)
AnonRows(msgs, known) ==
    IF msgs = <<>> THEN <<>>
    ELSE LET item == Head(msgs)
             known2 == IF item.From \in Range(known) THEN known ELSE Append(known, item.From)
             t == parse_datetime(item.Date)
         IN  << [AnonymousID |-> IdOf(known2, item.From), Sent |-> t - (t % 60)] >>
             \o AnonRows(Tail(msgs), known2)

\* faulty variant: the user name is not looked up before the loop
extract_direct_messages_NoPreassign(data) ==
    IF ~data.chat.present THEN ExtractorRaises("AttributeError")
    ELSE IF AnyMalformed(data.chat.msgs) THEN ExtractorRaises("ValueError")
    ELSE ExtractionResult("tiktok_direct_messages", AnonRows(data.chat.msgs, <<>>))

\* history is None when the section is absent, and flatten_chat_history(None)
\* raises AttributeError; the messages are not date-filtered here.
extract_direct_messages(data) ==
    IF ~data.chat.present THEN ExtractorRaises("AttributeError")
    ELSE IF AnyMalformed(data.chat.msgs) THEN ExtractorRaises("ValueError")
    ELSE ExtractionResult("tiktok_direct_messages", AnonRows(data.chat.msgs, <<data.userName>>))

-----------------------------------------------------------------------------
(* Extraction Orchestrator *)

\* faulty variant: the list in the order of the documentation's table
extractors_TableOrder ==
    << "extract_summary_data", "extract_videos_viewed", "extract_video_posts",
       "extract_comments_and_likes", "extract_session_info", "extract_direct_messages" >>

\* the extractors list of extract_tiktok_data, in its order
extractors ==
    << "extract_summary_data", "extract_video_posts", "extract_comments_and_likes",
       "extract_videos_viewed", "extract_session_info", "extract_direct_messages" >>

CallExtractor(extractor, data) ==
    CASE extractor = "extract_summary_data" -> extract_summary_data(data)
      [] extractor = "extract_video_posts" -> extract_video_posts(data)
      [] extractor = "extract_comments_and_likes" -> extract_comments_and_likes(data)
      [] extractor = "extract_videos_viewed" -> extract_videos_viewed(data)
      [] extractor = "extract_session_info" -> extract_session_info(data)
      [] extractor = "extract_direct_messages" -> extract_direct_messages(data)

\* `if table is not None`
KeepTable(table) == ~table.isnone

\* [table for table in (extractor(data) for extractor in extractors) if table is not None]
\* from extractor i on: the list, or the first exception raised
RECURSIVE RunExtractors(_, _)
RunExtractors(data, i) ==
    IF i > Len(extractors) THEN Ok(<<>>)
    ELSE LET table == CallExtractor(extractors[i], data)
         IN  IF table.status # "ok" THEN Raise(table.status)
             ELSE LET rest == RunExtractors(data, i + 1)
                  IN  IF rest.status # "ok" THEN rest
                      ELSE Ok((IF KeepTable(table) THEN <<table>> ELSE <<>>) \o rest.val)

\* What a call of the extractor returns: [status, isnone, tables]
Returned(tables) == [status |-> "ok", isnone |-> FALSE, tables |-> tables]
ReturnedNone == [status |-> "ok", isnone |-> TRUE, tables |-> <<>>]
Raised(e) == [status |-> e, isnone |-> FALSE, tables |-> <<>>]

\* extract_tiktok_data(zip_file): the first document's tables; None when the
\* reader yields no document (the for loop body never runs)
extract_tiktok_data(zip_file) ==
    LET docs == get_json_data_from_file(zip_file)
    IN  IF docs.status # "ok" THEN Raised(docs.status)
        ELSE IF docs.val = <<>> THEN ReturnedNone
        ELSE LET r == RunExtractors(docs.val[1], 1)
             IN  IF r.status # "ok" THEN Raised(r.status) ELSE Returned(r.val)

-----------------------------------------------------------------------------
(* Inputs: documents and files *)

BeforeStart == DateStr(-1, SecondsPerDay - 1)   \* 2020-12-31 23:59:59
AtStart == DateStr(0, 0)                        \* 2021-01-01 00:00:00
Inside == DateStr(100, 14 * SecondsPerHour + 62) \* 2021-04-11 14:01:02
LastInside == DateStr(1460, SecondsPerDay - 1)  \* 2024-12-31 23:59:59
AtEnd == DateStr(1461, 0)                       \* 2025-01-01 00:00:00
AfterEnd == DateStr(1461, 1)                    \* 2025-01-01 00:00:01

Item(d) == [Date |-> d]
Video(d, likes) == [Date |-> d, Likes |-> likes]
Message(d, from) == [Date |-> d, From |-> from]
Num(n) == [kind |-> "num", n |-> n]
NoneString == [kind |-> "None", n |-> 0]
Absent == [kind |-> "absent", n |-> 0]

\* a minimal export that every extractor accepts
BaseDoc ==
    [isdict |-> TRUE, userName |-> "donor", likesReceived |-> Num(7),
     followers |-> <<>>, following |-> <<>>, likeList |-> <<>>, comments |-> <<>>,
     browsing |-> <<Item(Inside)>>,
     videoList |-> [present |-> FALSE, items |-> <<>>],
     chat |-> [present |-> TRUE, msgs |-> <<>>]]

\* the same export with posts and likes given: all six extractors yield a table
FullDoc ==
    [BaseDoc EXCEPT !.likeList = <<Item(Inside)>>,
                    !.videoList = [present |-> TRUE, items |-> <<Video(Inside, Num(3))>>]]

\* a JSON object without Profile/.../userName
NoUserDoc == [BaseDoc EXCEPT !.userName = ""]
\* a JSON value that is not an object (an array, a string, a number)
NonDictValue == [isdict |-> FALSE, userName |-> ""]
\* an export without the "Direct Messages" section
NoChatDoc == [BaseDoc EXCEPT !.chat = [present |-> FALSE, msgs |-> <<>>]]

Entry(suffix, content, value) == [json_suffix |-> suffix, content |-> content, value |-> value]

JsonFile(value) == [kind |-> "json", value |-> value, entries |-> <<>>]
ZipFile(entries) == [kind |-> "zip", value |-> NonDictValue, entries |-> entries]
OtherFile == [kind |-> "other", value |-> NonDictValue, entries |-> <<>>]
UnreadableFile == [kind |-> "unreadable", value |-> NonDictValue, entries |-> <<>>]
NoFile == [kind |-> "nofile", value |-> NonDictValue, entries |-> <<>>]

\* the files a user may hand to the file prompt
FlowFiles ==
    { JsonFile(BaseDoc), JsonFile(FullDoc), JsonFile(NoUserDoc), JsonFile(NonDictValue),
      JsonFile(NoChatDoc),
      ZipFile(<<Entry(FALSE, "badjson", NonDictValue), Entry(TRUE, "json", NoUserDoc),
                Entry(TRUE, "json", BaseDoc)>>),
      ZipFile(<<Entry(FALSE, "badjson", NonDictValue), Entry(TRUE, "badjson", NonDictValue)>>),
      ZipFile(<<>>),
      OtherFile, UnreadableFile }

-----------------------------------------------------------------------------
(* Data donation flow: process(session_id), resumed by the host *)

platform == "TikTok"
session_id == "session"

Payload(type, file, value) == [type |-> type, file |-> file, value |-> value]
PayloadString(f) == Payload("PayloadString", f, "")
PayloadJSON(v) == Payload("PayloadJSON", NoFile, v)
PayloadTrue == Payload("PayloadTrue", NoFile, "")
PayloadFalse == Payload("PayloadFalse", NoFile, "")
PayloadVoid == Payload("PayloadVoid", NoFile, "")
NoPayload == Payload("", NoFile, "")

ConsentValues == {"[]", "[{tiktok_summary}]"}

Responses ==
    {PayloadString(f) : f \in FlowFiles} \cup {PayloadJSON(v) : v \in ConsentValues}
    \cup {PayloadTrue, PayloadFalse, PayloadVoid}

\* self.log(message): meta_data.append(("debug", f"{self.platform}: {message}"))
LogEntry(message) == <<"debug", platform, message>>
log(md, message) == Append(md, LogEntry(message))

TableIds(tables) == [i \in DOMAIN tables |-> tables[i].id]

\* CommandUIRender(page) / CommandSystemDonate(key, json_string); loglen is the
\* length of meta_data when the command is yielded
CommandUIRender(body, tables, md) ==
    [cmd |-> "render", body |-> body, key |-> "", value |-> "",
     tables |-> TableIds(tables), loglen |-> Len(md)]
CommandSystemDonate(key, json_string, md) ==
    [cmd |-> "donate", body |-> "", key |-> key, value |-> json_string,
     tables |-> <<>>, loglen |-> Len(md)]

DonationKey == <<session_id, platform>>
TrackingKey == <<session_id, "tracking">>

NoExtraction == [status |-> "", isnone |-> FALSE, tables |-> <<>>]

FlowInit ==
    /\ pc = "start"
    /\ meta_data = <<>>
    /\ cmds = <<>>
    /\ last_response = NoPayload
    /\ file_result = NoPayload
    /\ extraction_result = NoExtraction
    /\ retry_from = ""
    /\ prompts = 0

\* prompt_file up to its yield: the file prompt is rendered, nothing is logged
YieldPromptFile ==
    /\ prompts < MaxPrompts
    /\ prompts' = prompts + 1
    /\ cmds' = Append(cmds, CommandUIRender("prompt_file", <<>>, meta_data))
    /\ pc' = "prompt_file"
    /\ UNCHANGED meta_data

\* the generator returns: process() ends
Return ==
    /\ pc' = "finished"
    /\ UNCHANGED <<cmds, prompts>>

\* the first next(): process(session_id) yields the tracking donation
Start ==
    /\ pc = "start"
    /\ cmds' = Append(cmds, CommandSystemDonate(TrackingKey, "user entered script", meta_data))
    /\ pc' = "tracking"
    /\ UNCHANGED <<meta_data, last_response, file_result, extraction_result, retry_from, prompts>>
    /\ UNCHANGED <<readerVars, extractVars, callVars>>

\* resumed after the tracking donation: DataDonation.__call__ builds the
\* processor and process() runs to the first file prompt
ResumeTracking ==
    /\ pc = "tracking"
    /\ \E response \in Responses : last_response' = response
    /\ YieldPromptFile
    /\ UNCHANGED <<file_result, extraction_result, retry_from>>
    /\ UNCHANGED <<readerVars, extractVars, callVars>>

\* faulty variant: the `if extraction_result is None` test is missing
Branch_NoNoneTest(r) ==
    IF r.status = "IOError" THEN "IOError"
    ELSE IF r.status = "InvalidFileError" THEN "InvalidFileError"
    ELSE IF r.status # "ok" THEN "propagate"
    ELSE "consent"

\* which except/else branch of process() handles the outcome of extract_data
Branch(r) ==
    IF r.status = "IOError" THEN "IOError"
    ELSE IF r.status = "InvalidFileError" THEN "InvalidFileError"
    ELSE IF r.status # "ok" THEN "propagate"
    ELSE IF r.isnone THEN "None"
    ELSE "consent"

\* self.extract_data(file) with extractor = extract_tiktok_data
extract_data(file) == extract_tiktok_data(file)

\* faulty variant: a structured payload is taken for a file payload too
IsFilePayload_AlsoJSON(response) == response.type \in {"PayloadString", "PayloadJSON"}

\* prompt_file returns the payload unless file_result.__type__ != "PayloadString"
IsFilePayload(response) == response.type = "PayloadString"

\* resumed at the yield of prompt_file with file_result = response
ResumeFile ==
    /\ pc = "prompt_file"
    /\ \E response \in Responses :
        /\ last_response' = response
        /\ IF ~IsFilePayload(response)
           THEN \* log, raise SkipToNextStep, suppressed around the loop
                /\ meta_data' = log(meta_data, "skip to next step")
                /\ Return
                /\ UNCHANGED <<file_result, extraction_result, retry_from>>
           ELSE LET r == extract_data(response.file)
                    md1 == log(meta_data, "extracting file")
                IN  /\ file_result' = response
                    /\ extraction_result' = r
                    /\ CASE Branch(r) = "IOError" ->
                              LET md2 == log(md1, "prompt confirmation to retry file selection")
                              IN  /\ meta_data' = md2
                                  /\ cmds' = Append(cmds, CommandUIRender("retry_confirmation", <<>>, md2))
                                  /\ pc' = "prompt_retry"
                                  /\ retry_from' = "IOError"
                                  /\ UNCHANGED prompts
                         [] Branch(r) = "InvalidFileError" ->
                              LET md2 == log(md1, "invalid file detected, prompting for retry")
                              IN  /\ meta_data' = md2
                                  /\ cmds' = Append(cmds, CommandUIRender("retry_confirmation", <<>>, md2))
                                  /\ pc' = "prompt_retry"
                                  /\ retry_from' = "InvalidFileError"
                                  /\ UNCHANGED prompts
                         [] Branch(r) = "None" ->
                              /\ meta_data' = md1
                              /\ cmds' = Append(cmds, CommandUIRender("retry_confirmation", <<>>, md1))
                              /\ pc' = "prompt_retry"
                              /\ retry_from' = "None"
                              /\ UNCHANGED prompts
                         [] Branch(r) = "consent" ->
                              \* prompt_consent up to its yield
                              LET md2 == log(md1, "extraction successful, go to consent form")
                                  md3 == log(md2, "prompt consent")
                              IN  /\ meta_data' = md3
                                  /\ cmds' = Append(cmds, CommandUIRender("prompt_consent", r.tables, md3))
                                  /\ pc' = "prompt_consent"
                                  /\ UNCHANGED <<retry_from, prompts>>
                         [] Branch(r) = "propagate" ->
                              \* neither except clause matches: the generator raises
                              /\ meta_data' = md1
                              /\ pc' = "raised"
                              /\ UNCHANGED <<cmds, retry_from, prompts>>
    /\ UNCHANGED <<readerVars, extractVars, callVars>>

\* prompt_retry returns retry_result.__type__ == "PayloadTrue"
TryAgain(response) == response.type = "PayloadTrue"

\* faulty variant: the IOError branch loops like the other two
RetryLoops_AlsoAfterIOError(from, try_again) == try_again

\* whether process() loops back to the file prompt after the retry prompt
RetryLoops(from, try_again) == from # "IOError" /\ try_again

\* resumed at the yield of prompt_retry
ResumeRetry ==
    /\ pc = "prompt_retry"
    /\ \E response \in Responses :
        /\ last_response' = response
        /\ IF RetryLoops(retry_from, TryAgain(response))
           THEN YieldPromptFile
           ELSE Return /\ UNCHANGED meta_data
    /\ UNCHANGED <<file_result, extraction_result, retry_from>>
    /\ UNCHANGED <<readerVars, extractVars, callVars>>

\* faulty variant: anything but a refusal counts as an approval
Approves_UnlessFalse(response) == response.type # "PayloadFalse"

\* `if consent_result.__type__ == "PayloadJSON"`
Approves(response) == response.type = "PayloadJSON"

\* resumed at the yield of prompt_consent; without an approval prompt_consent
\* returns and the `while True` loop of process() runs prompt_file again
ResumeConsent ==
    /\ pc = "prompt_consent"
    /\ \E response \in Responses :
        /\ last_response' = response
        /\ IF Approves(response)
           THEN LET md == log(meta_data, "donate consent data")
                IN  /\ meta_data' = md
                    /\ cmds' = Append(cmds, CommandSystemDonate(DonationKey, response.value, md))
                    /\ pc' = "donate"
                    /\ UNCHANGED prompts
           ELSE YieldPromptFile
    /\ UNCHANGED <<file_result, extraction_result, retry_from>>
    /\ UNCHANGED <<readerVars, extractVars, callVars>>

\* resumed after the donation: prompt_consent returns and the `while True`
\* loop of process() runs prompt_file again
ResumeDonate ==
    /\ pc = "donate"
    /\ \E response \in Responses : last_response' = response
    /\ YieldPromptFile
    /\ UNCHANGED <<file_result, extraction_result, retry_from>>
    /\ UNCHANGED <<readerVars, extractVars, callVars>>

NoCall ==
    /\ call_arg = <<>>
    /\ call_ret = Raise("")

Init ==
    /\ FlowInit
    /\ rfile = NoFile /\ rresult = Raise("")
    /\ xdata = NonDictValue /\ xresult = Raise("")
    /\ NoCall

Next == Start \/ ResumeTracking \/ ResumeFile \/ ResumeRetry \/ ResumeConsent \/ ResumeDonate

Spec == Init /\ [][Next]_vars

-----------------------------------------------------------------------------
(* Export Reader on its own: get_json_data_from_file applied to one file *)

SeqsUpTo(S, n) == UNION {[1..k -> S] : k \in 0..n}

EntryKinds ==
    { Entry(FALSE, "json", BaseDoc), Entry(FALSE, "badjson", NonDictValue),
      Entry(TRUE, "badjson", NonDictValue), Entry(TRUE, "undecodable", NonDictValue),
      Entry(TRUE, "json", BaseDoc), Entry(TRUE, "json", FullDoc),
      Entry(TRUE, "json", NoUserDoc), Entry(TRUE, "json", NonDictValue) }

ReaderFiles ==
    {ZipFile(es) : es \in SeqsUpTo(EntryKinds, MaxEntries)}
    \cup {JsonFile(v) : v \in {BaseDoc, FullDoc, NoUserDoc, NonDictValue}}
    \cup {OtherFile, UnreadableFile}

Pending == Raise("pending")

ReaderInit ==
    /\ FlowInit
    /\ rfile \in ReaderFiles /\ rresult = Pending
    /\ xdata = NonDictValue /\ xresult = Raise("")
    /\ NoCall

ReadFile ==
    /\ rresult = Pending
    /\ rresult' = get_json_data_from_file(rfile)
    /\ UNCHANGED <<rfile, flowVars, extractVars, callVars>>

ReaderNext == ReadFile

SpecReader == ReaderInit /\ [][ReaderNext]_vars

-----------------------------------------------------------------------------
(* Extraction on its own: extract_tiktok_data applied to a JSON file *)

DateChoices == {BeforeStart, AtStart, LastInside, AtEnd, AfterEnd}

Docs ==
    { [BaseDoc EXCEPT !.browsing = b, !.chat = c, !.videoList = v, !.likeList = l,
                      !.comments = k, !.followers = f, !.likesReceived = r] :
        b \in {[i \in DOMAIN ds |-> Item(ds[i])] : ds \in SeqsUpTo(DateChoices, MaxItems)},
        c \in { [present |-> FALSE, msgs |-> <<>>], [present |-> TRUE, msgs |-> <<>>],
                [present |-> TRUE, msgs |-> <<Message(BeforeStart, "friend"), Message(AtEnd, "donor")>>],
                [present |-> TRUE, msgs |-> <<Message(Inside, "friend"), Message(Inside, "donor"),
                                              Message(LastInside, "other")>>] },
        v \in { [present |-> FALSE, items |-> <<>>], [present |-> TRUE, items |-> <<>>],
                [present |-> TRUE, items |-> <<Video(Inside, Num(3)), Video(AtEnd, Num(2))>>],
                [present |-> TRUE, items |-> <<Video(Inside, NoneString)>>],
                [present |-> TRUE, items |-> <<Video(AfterEnd, Absent), Video(MalformedDate, Num(1))>>] },
        l \in { <<>>, <<Item(Inside)>>, <<Item(AtEnd), Item(BeforeStart)>> },
        k \in { <<>>, <<Item(LastInside), Item(AfterEnd)>> },
        f \in { <<>>, <<Item(AtEnd)>> },
        r \in { Num(7), NoneString } }

ExtractInit ==
    /\ FlowInit
    /\ rfile = NoFile /\ rresult = Raise("")
    /\ xdata \in Docs /\ xresult = Raised("pending")
    /\ NoCall

Extract ==
    /\ xresult = Raised("pending")
    /\ xresult' = extract_tiktok_data(JsonFile(xdata))
    /\ UNCHANGED <<xdata, flowVars, readerVars, callVars>>

ExtractNext == Extract

SpecExtract == ExtractInit /\ [][ExtractNext]_vars

-----------------------------------------------------------------------------
(* get_sessions on its own: applied to one list of instants *)

\* datetime.timedelta(minutes=5)
FiveMinutes == 5 * 60

\* instants whose differences fall on both sides of the five-minute limit,
\* and exactly on it
SessionInstants ==
    {0, 1, FiveMinutes, FiveMinutes + 1, 2 * FiveMinutes, 3 * FiveMinutes + 2}

SessionsInit ==
    /\ FlowInit
    /\ rfile = NoFile /\ rresult = Raise("")
    /\ xdata = NonDictValue /\ xresult = Raise("")
    /\ call_arg \in SeqsUpTo(SessionInstants, MaxTimestamps)
    /\ call_ret = Pending

CallGetSessions ==
    /\ call_ret = Pending
    /\ call_ret' = Ok(get_sessions(call_arg))
    /\ UNCHANGED <<call_arg, flowVars, readerVars, extractVars>>

SessionsNext == CallGetSessions

SpecSessions == SessionsInit /\ [][SessionsNext]_vars

-----------------------------------------------------------------------------
(* extract_direct_messages on its own: applied to one chat history *)

\* item["From"] values: the donating user and three other parties
Senders == {BaseDoc.userName, "friend", "other", "third"}

ChatMessages == {Message(d, from) : d \in {Inside, MalformedDate}, from \in Senders}

MessagesInit ==
    /\ FlowInit
    /\ rfile = NoFile /\ rresult = Raise("")
    /\ xdata = NonDictValue /\ xresult = Raise("")
    /\ \E msgs \in SeqsUpTo(ChatMessages, MaxMessages) :
          call_arg = [BaseDoc EXCEPT !.chat = [present |-> TRUE, msgs |-> msgs]]
    /\ call_ret = Pending

CallExtractDirectMessages ==
    /\ call_ret = Pending
    /\ LET result == extract_direct_messages(call_arg)
       IN  call_ret' = [status |-> result.status, val |-> result.rows]
    /\ UNCHANGED <<call_arg, flowVars, readerVars, extractVars>>

MessagesNext == CallExtractDirectMessages

SpecMessages == MessagesInit /\ [][MessagesNext]_vars

-----------------------------------------------------------------------------
(* extract_video_posts on its own: applied to one VideoList *)

\* video["Likes"] values: digit strings, the string "None", no key at all
LikesChoices == {Num(0), Num(3), NoneString, Absent}

PostedVideos == {Video(d, likes) : d \in {Inside, LastInside, AfterEnd}, likes \in LikesChoices}

PostsInit ==
    /\ FlowInit
    /\ rfile = NoFile /\ rresult = Raise("")
    /\ xdata = NonDictValue /\ xresult = Raise("")
    /\ \E items \in SeqsUpTo(PostedVideos, MaxVideos) :
          call_arg = [BaseDoc EXCEPT !.videoList = [present |-> TRUE, items |-> items]]
    /\ call_ret = Pending

CallExtractVideoPosts ==
    /\ call_ret = Pending
    /\ LET result == extract_video_posts(call_arg)
       IN  call_ret' = [status |-> result.status, val |-> result.rows]
    /\ UNCHANGED <<call_arg, flowVars, readerVars, extractVars>>

PostsNext == CallExtractVideoPosts

SpecPosts == PostsInit /\ [][PostsNext]_vars

-----------------------------------------------------------------------------
(* Properties of the donation flow (specification Spec) *)

Last(s) == s[Len(s)]

IsRender(c, body) == c.cmd = "render" /\ c.body = body
IsPlatformDonation(c) == c.cmd = "donate" /\ c.key = DonationKey

\* C1: a donation keyed {sessionId}-{platformName} is emitted only as the
\* command right after a consent-prompt render, in answer to a PayloadJSON
\* response, and carries that response's value; never right after a file
\* prompt, a retry confirmation, a failed extraction or a non-approval.
C1_DonationOnlyAfterApproval ==
    /\ \A i \in DOMAIN cmds :
          IsPlatformDonation(cmds[i]) => i > 1 /\ IsRender(cmds[i - 1], "prompt_consent")
    /\ (cmds # <<>> /\ IsPlatformDonation(Last(cmds))) =>
          /\ pc = "donate"
          /\ last_response.type = "PayloadJSON"
          /\ Last(cmds).value = last_response.value
          /\ extraction_result.status = "ok" /\ ~extraction_result.isnone
    /\ (pc = "donate") => (cmds # <<>> /\ IsPlatformDonation(Last(cmds)))

\* C1 witness: a donation was emitted after an earlier retry round
C1_Witness ==
    /\ pc = "donate"
    /\ Len(cmds) > 4
    /\ IsPlatformDonation(Last(cmds))
    /\ Last(cmds).value = "[{tiktok_summary}]"
    /\ \E i \in DOMAIN cmds : IsRender(cmds[i], "retry_confirmation")

\* C2: once the consent prompt has been answered the flow is over: no render
\* request follows a consent prompt, and at most one platform donation is
\* emitted per session.
C2_TerminalAfterConsent ==
    /\ \A i \in DOMAIN cmds : \A j \in DOMAIN cmds :
          (IsRender(cmds[i], "prompt_consent") /\ j > i) => cmds[j].cmd # "render"
    /\ Cardinality({i \in DOMAIN cmds : IsPlatformDonation(cmds[i])}) <= 1
    /\ Cardinality({i \in DOMAIN cmds : IsRender(cmds[i], "prompt_consent")}) <= 1

\* C3: after an extraction that raised IOError exactly one retry confirmation
\* is rendered (right after the file prompt) and the flow then ends whatever
\* the answer: no file prompt, consent prompt or donation follows.
C3_IOErrorEndsFlow ==
    extraction_result.status = "IOError" =>
        /\ pc \in {"prompt_retry", "finished"}
        /\ Len(cmds) >= 2
        /\ IsRender(Last(cmds), "retry_confirmation")
        /\ IsRender(cmds[Len(cmds) - 1], "prompt_file")
        /\ retry_from = "IOError"

\* C3 witness: the flow ended after the user confirmed the retry
C3_Witness ==
    /\ extraction_result.status = "IOError"
    /\ pc = "finished"
    /\ last_response.type = "PayloadTrue"
    /\ prompts < MaxPrompts

\* the file selected last parses directly as JSON and has no userName
DirectJsonFailsValidation ==
    /\ file_result.type = "PayloadString"
    /\ file_result.file.kind = "json"
    /\ file_result.file.value.isdict
    /\ file_result.file.value.userName = ""

\* C4: a file that parses directly as JSON but fails validation is reported
\* as InvalidFileError, and the flow recovers through the retry confirmation:
\* back to the file prompt when the user confirms, ended otherwise.
C4_InvalidFileRecovered ==
    DirectJsonFailsValidation =>
        /\ extraction_result.status = "InvalidFileError"
        /\ (pc = "finished" /\ IsRender(Last(cmds), "retry_confirmation"))
              => ~TryAgain(last_response)

NoDocumentOrEmpty(r) == r.status = "ok" /\ (r.isnone \/ r.tables = <<>>)

\* C5: an extraction that returns no document or an empty list leads to the
\* retry confirmation, never to the consent prompt; a confirmed retry leads
\* back to the file prompt, anything else ends the flow; every consent prompt
\* shows a non-empty list of tables.
C5_NoResultRetries ==
    /\ \A i \in DOMAIN cmds :
          IsRender(cmds[i], "prompt_consent") => Len(cmds[i].tables) > 0
    /\ NoDocumentOrEmpty(extraction_result) =>
          /\ retry_from = "None"
          /\ \/ /\ pc = "prompt_retry"
                /\ IsRender(Last(cmds), "retry_confirmation")
                /\ IsRender(cmds[Len(cmds) - 1], "prompt_file")
             \/ /\ pc = "finished"
                /\ IsRender(Last(cmds), "retry_confirmation")
                /\ ~TryAgain(last_response)
             \/ /\ pc \in {"prompt_file", "finished"}
                /\ IsRender(Last(cmds), "prompt_file")
                /\ IsRender(cmds[Len(cmds) - 1], "retry_confirmation")
                /\ (pc = "prompt_file" => TryAgain(last_response))
                /\ (pc = "finished" => ~IsFilePayload(last_response))

\* C5 witness: a second "no document" retry was confirmed and the file prompt
\* is shown for the third time
C5_Witness ==
    /\ NoDocumentOrEmpty(extraction_result)
    /\ pc = "prompt_file"
    /\ prompts = 3
    /\ Cardinality({i \in DOMAIN cmds : IsRender(cmds[i], "retry_confirmation")}) = 2

\* C6: a response to the file prompt that is not a PayloadString ends the
\* flow at once: no extraction, no further command, and the log gains no
\* entry.
C6_CancelLogsNothing ==
    [][(pc = "prompt_file" /\ ~IsFilePayload(last_response'))
        => /\ pc' = "finished"
           /\ cmds' = cmds
           /\ extraction_result' = extraction_result
           /\ meta_data' = meta_data]_vars

\* C6 as amended: the same, but the log gains exactly one entry, the debug
\* entry "skip to next step"
C6_CancelLogsSkip ==
    [][(pc = "prompt_file" /\ ~(last_response'.type = "PayloadString"))
        => /\ pc' = "finished"
           /\ cmds' = cmds
           /\ extraction_result' = extraction_result
           /\ file_result' = file_result
           /\ meta_data' = Append(meta_data, LogEntry("skip to next step"))]_vars

\* C6 witness: the flow ended on a cancelled file prompt after a retry round
C6_Witness ==
    /\ pc = "finished"
    /\ IsRender(Last(cmds), "prompt_file")
    /\ last_response.type = "PayloadVoid"
    /\ Last(meta_data) = LogEntry("skip to next step")
    /\ prompts = 2

\* the step a log message names
StepOfMessage(entry) ==
    CASE entry[3] = "prompt confirmation to retry file selection" -> "retry_confirmation"
      [] entry[3] = "invalid file detected, prompting for retry" -> "retry_confirmation"
      [] entry[3] = "prompt consent" -> "prompt_consent"
      [] entry[3] = "prompt file" -> "prompt_file"
      [] OTHER -> ""

\* length of the log at the render request before command i (0 if none)
LogLenAtPreviousRender(i) ==
    LET earlier == {j \in 1..(i - 1) : cmds[j].cmd = "render"}
    IN  IF earlier = {} THEN 0
        ELSE cmds[CHOOSE j \in earlier : \A k \in earlier : k <= j].loglen

\* C7: before every render request (file prompt, retry confirmation, consent
\* prompt) the log has grown, since the previous render request, by an entry
\* that names the step being rendered and the platform.
C7_EveryRenderLogged ==
    \A i \in DOMAIN cmds :
        cmds[i].cmd = "render" =>
            \E k \in (LogLenAtPreviousRender(i) + 1)..cmds[i].loglen :
                /\ meta_data[k][1] = "debug"
                /\ meta_data[k][2] = platform
                /\ StepOfMessage(meta_data[k]) = cmds[i].body

-----------------------------------------------------------------------------
(* Properties of the Export Reader (specification SpecReader) *)

\* a zip entry the reader should return: a .json name, JSON content, and a
\* non-empty userName at Profile / Profile Information / ProfileMap
Qualifies(e) ==
    e.json_suffix /\ e.content = "json" /\ e.value.isdict /\ e.value.userName # ""

\* C8: read as a zip archive, the reader returns exactly the first entry in
\* archive order that is named *.json, parses and validates; other entries
\* are skipped; with no such entry the result is empty; never two documents.
C8_FirstQualifyingEntry ==
    (rresult # Pending /\ rfile.kind = "zip") =>
        LET q == {i \in DOMAIN rfile.entries : Qualifies(rfile.entries[i])}
        IN  /\ rresult.status = "ok"
            /\ Len(rresult.val) <= 1
            /\ IF q = {} THEN rresult.val = <<>>
               ELSE rresult.val = <<rfile.entries[SetMin(q)].value>>

-----------------------------------------------------------------------------
(* Properties of the extractors (specification SpecExtract) *)

Extracted == xresult.status = "ok" /\ ~xresult.isnone

\* the table with the given id in the returned list
TableOf(id) == xresult.tables[CHOOSE i \in DOMAIN xresult.tables : xresult.tables[i].id = id]
HasTable(id) == \E i \in DOMAIN xresult.tables : xresult.tables[i].id = id

\* 2021-01-01 00:00:00 <= t < 2025-01-01 00:00:00
InAnalysisWindow(t) == filter_start <= t /\ t < filter_end
NumberInWindow(items) ==
    Cardinality({i \in DOMAIN items : InAnalysisWindow(parse_datetime(items[i].Date))})

\* C9: every extractor keeps an item iff its instant t satisfies
\* 2021-01-01 00:00:00 <= t < 2025-01-01 00:00:00: the rows of Videos Viewed
\* and Direct Messages and the time-filtered Summary counts equal the number
\* of source items in that window.
C9_UniformWindow ==
    Extracted =>
        /\ Len(TableOf("tiktok_videos_viewed").rows) = NumberInWindow(xdata.browsing)
        /\ Len(TableOf("tiktok_direct_messages").rows) = NumberInWindow(ChatOrEmpty(xdata))
        /\ LET Number == TableOf("tiktok_summary").rows
           IN  /\ Number[1] = NumberInWindow(xdata.followers)
               /\ Number[2] = NumberInWindow(xdata.following)
               /\ Number[4] = NumberInWindow(VideoListOrEmpty(xdata))
               /\ Number[5] = NumberInWindow(xdata.likeList)
               /\ Number[6] = NumberInWindow(xdata.comments)
               /\ Number[7] + Number[8] = NumberInWindow(ChatOrEmpty(xdata))
               /\ Number[9] = NumberInWindow(xdata.browsing)

\* the six extractors' own outputs for the loaded document
Outputs ==
    { extract_summary_data(xdata), extract_videos_viewed(xdata), extract_video_posts(xdata),
      extract_comments_and_likes(xdata), extract_session_info(xdata),
      extract_direct_messages(xdata) }

\* the returned list holds exactly the outputs that are not None, each once
ExactlyTheResults ==
    /\ Range(xresult.tables) = {o \in Outputs : ~o.isnone}
    /\ Len(xresult.tables) = Cardinality({o \in Outputs : ~o.isnone})

PositionIn(order, id) == CHOOSE i \in DOMAIN order : order[i] = id
OrderedAs(order) ==
    /\ \A i \in DOMAIN xresult.tables : xresult.tables[i].id \in Range(order)
    /\ \A i \in DOMAIN xresult.tables : \A j \in DOMAIN xresult.tables :
          i < j => PositionIn(order, xresult.tables[i].id) < PositionIn(order, xresult.tables[j].id)

\* the order of the table of extractors in the documentation
DocumentedOrder ==
    << "tiktok_summary", "tiktok_videos_viewed", "tiktok_posts",
       "tiktok_comments_and_likes", "tiktok_session_info", "tiktok_direct_messages" >>

\* the order in which extract_tiktok_data lists the extractors
ListedOrder ==
    << "tiktok_summary", "tiktok_posts", "tiktok_comments_and_likes",
       "tiktok_videos_viewed", "tiktok_session_info", "tiktok_direct_messages" >>

\* C10: the orchestrator returns exactly the outputs that are not None, in
\* the order Summary, Videos Viewed, Video Posts, Comments & Likes, Session
\* Info, Direct Messages.
C10_DocumentedOrder == Extracted => (ExactlyTheResults /\ OrderedAs(DocumentedOrder))

\* C10 as amended: exactly the outputs that are not None, in the order
\* Summary, Video Posts, Comments & Likes, Videos Viewed, Session Info,
\* Direct Messages.
C10_ListedOrder == Extracted => (ExactlyTheResults /\ OrderedAs(ListedOrder))

\* C10 witness: Video Posts returned None and was dropped, Comments & Likes
\* and Videos Viewed are both in the list
C10_Witness ==
    /\ Extracted
    /\ extract_video_posts(xdata).isnone
    /\ ~HasTable("tiktok_posts")
    /\ HasTable("tiktok_comments_and_likes")
    /\ HasTable("tiktok_videos_viewed")
    /\ Len(xresult.tables) = 5

-----------------------------------------------------------------------------
(* Properties of get_sessions (specification SpecSessions) *)

SessionStart(session) == session[1]
SessionEnd(session) == session[2]
SessionDuration(session) == session[3]

\* the instants of T that lie in the session, bounds included
GroupOf(T, session) == {t \in T : SessionStart(session) <= t /\ t <= SessionEnd(session)}

\* the instant of T that follows t in sorted order
NextInstant(T, t) == SetMin({u \in T : u > t})

\* C11: get_sessions returns the sessions in chronological order; they
\* partition the instants given into contiguous groups of the sorted
\* input: each session starts at the first and ends at the last instant of
\* its group, its duration is end - start, two adjacent instants of one
\* group are at most five minutes apart, the last instant of a group and
\* the first of the next are more than five minutes apart.  No instant
\* gives no session, one instant gives one session of duration zero.  The
\* conditions mention the instants only as a collection and admit one list
\* of sessions, so every permutation of the input gives the same result.
C11_SessionsPartition ==
    call_ret.status = "ok" =>
        LET sessions == call_ret.val
            T == Range(call_arg)
        IN  /\ \A i \in DOMAIN sessions :
                  /\ SessionStart(sessions[i]) \in T
                  /\ SessionEnd(sessions[i]) \in T
                  /\ SessionStart(sessions[i]) <= SessionEnd(sessions[i])
                  /\ SessionDuration(sessions[i])
                        = SessionEnd(sessions[i]) - SessionStart(sessions[i])
                  /\ \A t \in GroupOf(T, sessions[i]) :
                        t < SessionEnd(sessions[i])
                            => NextInstant(T, t) - t <= FiveMinutes
            /\ \A i \in 1..(Len(sessions) - 1) :
                  SessionStart(sessions[i + 1]) - SessionEnd(sessions[i]) > FiveMinutes
            /\ \A t \in T : \E i \in DOMAIN sessions : t \in GroupOf(T, sessions[i])
            /\ (Len(call_arg) = 0 => sessions = <<>>)
            /\ (Len(call_arg) = 1 => sessions = << <<call_arg[1], call_arg[1], 0>> >>)

\* an unsorted list with a repeated instant gave two sessions, the first
\* one closing a gap of exactly five minutes
C11_Witness ==
    /\ call_ret.status = "ok"
    /\ Len(call_arg) = MaxTimestamps
    /\ call_arg[1] > call_arg[2]
    /\ call_arg[2] = call_arg[3]
    /\ Len(call_ret.val) = 2
    /\ SessionDuration(call_ret.val[1]) = FiveMinutes

-----------------------------------------------------------------------------
(* Properties of extract_direct_messages (specification SpecMessages) *)

\* the senders other than the donating user met in the first i messages
OthersSeen(msgs, user, i) == {msgs[j].From : j \in 1..i} \ {user}

\* the position of the first message of the sender of message i
FirstMessageOf(msgs, i) == SetMin({j \in DOMAIN msgs : msgs[j].From = msgs[i].From})

\* C12: in the table of one Direct Messages extraction, a message carries
\* anonymous id 1 exactly when its sender is the donating user, whoever
\* sent the first message and whether or not the user sent any; two
\* messages carry the same id exactly when they have the same sender; the
\* other senders carry 2, 3, ... in the order of their first message,
\* without gaps.
C12_AnonymousIds ==
    call_ret.status = "ok" =>
        LET msgs == call_arg.chat.msgs
            user == call_arg.userName
            rows == call_ret.val
        IN  /\ Len(rows) = Len(msgs)
            /\ \A i \in DOMAIN msgs :
                  /\ (rows[i].AnonymousID = 1) <=> (msgs[i].From = user)
                  /\ msgs[i].From # user
                        => rows[i].AnonymousID
                             = 1 + Cardinality(OthersSeen(msgs, user, FirstMessageOf(msgs, i)))
            /\ \A i, j \in DOMAIN msgs :
                  (rows[i].AnonymousID = rows[j].AnonymousID) <=> (msgs[i].From = msgs[j].From)

\* the first message came from another party, the user answered, and a third
\* party wrote last: the ids are 2, 1, 3
C12_Witness ==
    /\ call_ret.status = "ok"
    /\ Len(call_ret.val) = 3
    /\ call_arg.chat.msgs[1].From # call_arg.userName
    /\ call_arg.chat.msgs[2].From = call_arg.userName
    /\ call_arg.chat.msgs[3].From \notin {call_arg.userName, call_arg.chat.msgs[1].From}
    /\ call_ret.val[1].AnonymousID = 2
    /\ call_ret.val[2].AnonymousID = 1
    /\ call_ret.val[3].AnonymousID = 3

-----------------------------------------------------------------------------
(* Properties of extract_video_posts (specification SpecPosts) *)

\* the positions of the posted videos that fall into hour bucket k
PostedInHour(items, k) ==
    {i \in DOMAIN items : /\ InWindow(parse_datetime(items[i].Date))
                          /\ hourly_key(parse_datetime(items[i].Date)) = k}

\* the sum over a set of positions of what each Likes field is worth:
\* 0 when missing or "None", else its integer value
RECURSIVE LikesWorth(_, _)
LikesWorth(items, positions) ==
    IF positions = {} THEN 0
    ELSE LET i == CHOOSE p \in positions : TRUE
         IN  cast_number(items[i].Likes) + LikesWorth(items, positions \ {i})

\* C13: whenever the VideoList holds a posted video inside the window, the
\* Video Posts extractor does not fail, whatever the Likes fields are; the
\* row of each hour bucket counts every video of the bucket and sums the
\* likes, a missing or "None" Likes field counting 0 and every other one
\* its integer value.
C13_MissingLikesCountZero ==
    call_ret.status # "pending" =>
        LET items == call_arg.videoList.items
            buckets == {hourly_key(parse_datetime(items[i].Date)) :
                            i \in {p \in DOMAIN items : InWindow(parse_datetime(items[p].Date))}}
        IN  buckets # {} =>
                /\ call_ret.status = "ok"
                /\ \A k \in buckets :
                      \E r \in DOMAIN call_ret.val :
                          /\ call_ret.val[r].Date = k \div SecondsPerDay
                          /\ call_ret.val[r].Timeslot = map_to_timeslot(HourOf(k))
                          /\ call_ret.val[r].Videos = Cardinality(PostedInHour(items, k))
                          /\ call_ret.val[r].LikesReceived
                                = LikesWorth(items, PostedInHour(items, k))

====
